---- MODULE Spec2Model ----
(***************************************************************************)
(* Model of sloth::cache::Cache<T, LEN> (src/src/cache/mod.rs): a slot     *)
(* array with per-slot reader counters, a published index and a writer     *)
(* flag.  Every atomic operation of get_data and update is one step.       *)
(***************************************************************************)
EXTENDS Integers, Sequences, FiniteSets, TLC

\* ---- bounds of the model ----
MaxLen == 4          \* LEN ranges over 0..MaxLen
NumProcs == 2        \* threads sharing the cache
MaxUpdates == 3      \* update calls started in one behaviour
LiveProcs == 2       \* threads of the fair specification
LiveUpdates == 2     \* update calls started in one behaviour of the fair specification

Procs == 1..NumProcs

VARIABLES
    LEN,            \* const generic LEN
    built,          \* Cache::new compiled and ran (CHECK_LEN_IS_POWER_OF_TWO passed)
    index,          \* Cache.index
    writing,        \* Cache.writing
    count,          \* items[s].count
    data,           \* items[s].data : Option<T>, << >> is None, <<v>> is Some(v)
    pc,             \* position of each thread
    idx,            \* get_data: local `index`
    ret,            \* get_data: local `data` (the clone)
    arg,            \* update: parameter `data`
    current_index,  \* update: local
    next_index,     \* update: local
    nextVal,        \* number of update calls started; names the next argument
    pubSeq,         \* history: values published, in order of the index stores
    startLen,       \* history: Len(pubSeq) when the get_data call started
    raced,          \* history: the slot was replaced between this reader's index load and its read
    steps,          \* history: steps the current get_data call has taken
    done,           \* history: number of update calls completed
    acqSeq,         \* history: update arguments, in the order the updates acquired the flag
    installed,      \* history: values ever written into a cell
    dropped,        \* history: values dropped by a replace, in order
    lastDrop,       \* history: what the current update's replace dropped (<< >> nothing, <<v>> value v)
    startDone       \* history (TrackSpec only): 1 + number of updates completed when the get_data call started

vars == <<LEN, built, index, writing, count, data, pc, idx, ret, arg,
          current_index, next_index, nextVal, pubSeq, startLen, raced, steps, done,
          acqSeq, installed, dropped, lastDrop, startDone>>

\* ---- values ----
None == << >>
Some(v) == <<v>>
InitialValue == 0
Torn == -1           \* outcome of a read that races with a replace, or of unwrap_unchecked on None
NoValue == -2        \* a local that holds nothing yet

\* ---- pure helpers ----
RECURSIVE count_ones(_)
count_ones(n) == IF n = 0 THEN 0 ELSE (n % 2) + count_ones(n \div 2)

is_power_of_two(n) == count_ones(n) = 1

RECURSIVE BitAnd(_, _)
BitAnd(a, b) ==
    IF a = 0 \/ b = 0 THEN 0
    ELSE (a % 2) * (b % 2) + 2 * BitAnd(a \div 2, b \div 2)

CHECK_LEN_IS_POWER_OF_TWO(n) == is_power_of_two(n) = TRUE

LEN_MASK == LEN - 1

Slots == 0..(LEN - 1)

\* ---- construction ----
\* variant: the initial value is put in the last slot instead of slot 0
new_lastSlot(len, v) ==
    /\ LEN = len
    /\ built = CHECK_LEN_IS_POWER_OF_TWO(len)
    /\ index = 0
    /\ writing = FALSE
    /\ count = [s \in 0..(len - 1) |-> 0]
    /\ data = [s \in 0..(len - 1) |-> IF s = len - 1 THEN Some(v) ELSE None]

new(len, v) ==
    /\ LEN = len
    /\ built = CHECK_LEN_IS_POWER_OF_TWO(len)
    /\ index = 0
    /\ writing = FALSE
    /\ count = [s \in 0..(len - 1) |-> 0]
    /\ data = [s \in 0..(len - 1) |-> IF s = 0 THEN Some(v) ELSE None]

Init ==
    /\ \E len \in 0..MaxLen : new(len, InitialValue)
    /\ pc = [t \in Procs |-> "idle"]
    /\ idx = [t \in Procs |-> 0]
    /\ ret = [t \in Procs |-> NoValue]
    /\ arg = [t \in Procs |-> NoValue]
    /\ current_index = [t \in Procs |-> 0]
    /\ next_index = [t \in Procs |-> 0]
    /\ nextVal = 1
    /\ pubSeq = <<InitialValue>>
    /\ startLen = [t \in Procs |-> 0]
    /\ raced = [t \in Procs |-> FALSE]
    /\ steps = [t \in Procs |-> 0]
    /\ done = 0
    /\ acqSeq = << >>
    /\ installed = {InitialValue}
    /\ dropped = << >>
    /\ lastDrop = [t \in Procs |-> None]
    /\ startDone = [t \in Procs |-> 0]

NotInCall(t) == pc[t] \in {"idle", "r_done", "w_done"}

\* ---- get_data ----
GetDataCall(t) ==
    /\ built
    /\ NotInCall(t)
    /\ pc' = [pc EXCEPT ![t] = "r_load"]
    /\ idx' = [idx EXCEPT ![t] = 0]
    /\ ret' = [ret EXCEPT ![t] = NoValue]
    /\ arg' = [arg EXCEPT ![t] = NoValue]
    /\ current_index' = [current_index EXCEPT ![t] = 0]
    /\ next_index' = [next_index EXCEPT ![t] = 0]
    /\ startLen' = [startLen EXCEPT ![t] = Len(pubSeq)]
    /\ raced' = [raced EXCEPT ![t] = FALSE]
    /\ steps' = [steps EXCEPT ![t] = 0]
    /\ lastDrop' = [lastDrop EXCEPT ![t] = None]
    /\ UNCHANGED <<LEN, built, index, writing, count, data, nextVal, pubSeq, done,
                   acqSeq, installed, dropped, startDone>>

\* variant: the reader waits until no writer holds the flag
GetDataIndex_waitWriter(t) ==
    /\ pc[t] = "r_load"
    /\ ~writing
    /\ idx' = [idx EXCEPT ![t] = BitAnd(index, LEN_MASK)]
    /\ pc' = [pc EXCEPT ![t] = "r_add"]
    /\ steps' = [steps EXCEPT ![t] = @ + 1]
    /\ UNCHANGED <<LEN, built, index, writing, count, data, ret, arg, current_index,
                   next_index, nextVal, pubSeq, startLen, raced, done,
                   acqSeq, installed, dropped, lastDrop, startDone>>

\* let index = self.index();   (load, then mask)
GetDataIndex(t) ==
    /\ pc[t] = "r_load"
    /\ idx' = [idx EXCEPT ![t] = BitAnd(index, LEN_MASK)]
    /\ pc' = [pc EXCEPT ![t] = "r_add"]
    /\ steps' = [steps EXCEPT ![t] = @ + 1]
    /\ UNCHANGED <<LEN, built, index, writing, count, data, ret, arg, current_index,
                   next_index, nextVal, pubSeq, startLen, raced, done,
                   acqSeq, installed, dropped, lastDrop, startDone>>

\* self.items[index].count.fetch_add(1, Release)
GetDataFetchAdd(t) ==
    /\ pc[t] = "r_add"
    /\ count' = [count EXCEPT ![idx[t]] = @ + 1]
    /\ pc' = [pc EXCEPT ![t] = "r_read"]
    /\ steps' = [steps EXCEPT ![t] = @ + 1]
    /\ UNCHANGED <<LEN, built, index, writing, data, idx, ret, arg, current_index,
                   next_index, nextVal, pubSeq, startLen, raced, done,
                   acqSeq, installed, dropped, lastDrop, startDone>>

\* the values the unsynchronised read of a cell can produce
CloneOutcomes(cell, wasRaced) ==
    IF cell = None THEN {Torn}
    ELSE IF wasRaced THEN {cell[1], Torn}
    ELSE {cell[1]}

\* (*self.items[index].data.get()).as_ref().unwrap_unchecked().clone()
GetDataClone(t) ==
    /\ pc[t] = "r_read"
    /\ \E v \in CloneOutcomes(data[idx[t]], raced[t]) : ret' = [ret EXCEPT ![t] = v]
    /\ pc' = [pc EXCEPT ![t] = "r_sub"]
    /\ steps' = [steps EXCEPT ![t] = @ + 1]
    /\ UNCHANGED <<LEN, built, index, writing, count, data, idx, arg, current_index,
                   next_index, nextVal, pubSeq, startLen, raced, done,
                   acqSeq, installed, dropped, lastDrop, startDone>>

\* variant: the counter is not decremented on the way out
GetDataFetchSub_noDecrement(t) ==
    /\ pc[t] = "r_sub"
    /\ pc' = [pc EXCEPT ![t] = "r_done"]
    /\ steps' = [steps EXCEPT ![t] = @ + 1]
    /\ UNCHANGED <<LEN, built, index, writing, count, data, idx, ret, arg, current_index,
                   next_index, nextVal, pubSeq, startLen, raced, done,
                   acqSeq, installed, dropped, lastDrop, startDone>>

\* variant: the decrement re-reads index instead of using the local
GetDataFetchSub_reloadIndex(t) ==
    /\ pc[t] = "r_sub"
    /\ count' = [count EXCEPT ![BitAnd(index, LEN_MASK)] = @ - 1]
    /\ pc' = [pc EXCEPT ![t] = "r_done"]
    /\ steps' = [steps EXCEPT ![t] = @ + 1]
    /\ UNCHANGED <<LEN, built, index, writing, data, idx, ret, arg, current_index,
                   next_index, nextVal, pubSeq, startLen, raced, done,
                   acqSeq, installed, dropped, lastDrop, startDone>>

\* self.items[index].count.fetch_sub(1, Release); data
GetDataFetchSub(t) ==
    /\ pc[t] = "r_sub"
    /\ count' = [count EXCEPT ![idx[t]] = @ - 1]
    /\ pc' = [pc EXCEPT ![t] = "r_done"]
    /\ steps' = [steps EXCEPT ![t] = @ + 1]
    /\ UNCHANGED <<LEN, built, index, writing, data, idx, ret, arg, current_index,
                   next_index, nextVal, pubSeq, startLen, raced, done,
                   acqSeq, installed, dropped, lastDrop, startDone>>

get_data(t) ==
    \/ GetDataIndex(t)
    \/ GetDataFetchAdd(t)
    \/ GetDataClone(t)
    \/ GetDataFetchSub(t)

\* ---- update ----
UpdateCall(t) ==
    /\ built
    /\ NotInCall(t)
    /\ nextVal <= MaxUpdates
    /\ pc' = [pc EXCEPT ![t] = "w_swap"]
    /\ arg' = [arg EXCEPT ![t] = nextVal]
    /\ nextVal' = nextVal + 1
    /\ idx' = [idx EXCEPT ![t] = 0]
    /\ ret' = [ret EXCEPT ![t] = NoValue]
    /\ current_index' = [current_index EXCEPT ![t] = 0]
    /\ next_index' = [next_index EXCEPT ![t] = 0]
    /\ startLen' = [startLen EXCEPT ![t] = 0]
    /\ raced' = [raced EXCEPT ![t] = FALSE]
    /\ steps' = [steps EXCEPT ![t] = 0]
    /\ lastDrop' = [lastDrop EXCEPT ![t] = None]
    /\ startDone' = [startDone EXCEPT ![t] = 0]
    /\ UNCHANGED <<LEN, built, index, writing, count, data, pubSeq, done,
                   acqSeq, installed, dropped>>

\* variant: the result of the swap is ignored
UpdateSwap_ignoreResult(t) ==
    /\ pc[t] = "w_swap"
    /\ writing' = TRUE
    /\ pc' = [pc EXCEPT ![t] = "w_load"]
    /\ acqSeq' = Append(acqSeq, arg[t])
    /\ UNCHANGED <<LEN, built, index, count, data, idx, ret, arg, current_index,
                   next_index, nextVal, pubSeq, startLen, raced, steps, done,
                   installed, dropped, lastDrop, startDone>>

\* while self.writing.swap(true, Acquire) { spin_loop() }
UpdateSwap(t) ==
    /\ pc[t] = "w_swap"
    /\ writing' = TRUE
    /\ pc' = [pc EXCEPT ![t] = IF writing THEN "w_swap" ELSE "w_load"]
    /\ acqSeq' = IF writing THEN acqSeq ELSE Append(acqSeq, arg[t])
    /\ UNCHANGED <<LEN, built, index, count, data, idx, ret, arg, current_index,
                   next_index, nextVal, pubSeq, startLen, raced, steps, done,
                   installed, dropped, lastDrop, startDone>>

\* let current_index = self.index.load(Acquire); let mut next_index = current_index;
UpdateLoadIndex(t) ==
    /\ pc[t] = "w_load"
    /\ current_index' = [current_index EXCEPT ![t] = index]
    /\ next_index' = [next_index EXCEPT ![t] = index]
    /\ pc' = [pc EXCEPT ![t] = "w_search"]
    /\ UNCHANGED <<LEN, built, index, writing, count, data, idx, ret, arg,
                   nextVal, pubSeq, startLen, raced, steps, done,
                   acqSeq, installed, dropped, lastDrop, startDone>>

\* variant: the search does not skip current_index
UpdateSearch_noSkip(t) ==
    /\ pc[t] = "w_search"
    /\ LET n == BitAnd(next_index[t] + 1, LEN_MASK) IN
        /\ next_index' = [next_index EXCEPT ![t] = n]
        /\ pc' = [pc EXCEPT ![t] = IF count[n] = 0 THEN "w_replace" ELSE "w_search"]
    /\ UNCHANGED <<LEN, built, index, writing, count, data, idx, ret, arg, current_index,
                   nextVal, pubSeq, startLen, raced, steps, done,
                   acqSeq, installed, dropped, lastDrop, startDone>>

\* variant: the search walks the slots downwards
UpdateSearch_backward(t) ==
    /\ pc[t] = "w_search"
    /\ LET n == BitAnd(next_index[t] + LEN - 1, LEN_MASK) IN
        /\ next_index' = [next_index EXCEPT ![t] = n]
        /\ pc' = [pc EXCEPT ![t] =
                    IF n = current_index[t] THEN "w_search"
                    ELSE IF count[n] = 0 THEN "w_replace"
                    ELSE "w_search"]
    /\ UNCHANGED <<LEN, built, index, writing, count, data, idx, ret, arg, current_index,
                   nextVal, pubSeq, startLen, raced, steps, done,
                   acqSeq, installed, dropped, lastDrop, startDone>>

\* one iteration of the slot-search loop
UpdateSearch(t) ==
    /\ pc[t] = "w_search"
    /\ LET n == BitAnd(next_index[t] + 1, LEN_MASK) IN
        /\ next_index' = [next_index EXCEPT ![t] = n]
        /\ pc' = [pc EXCEPT ![t] =
                    IF n = current_index[t] THEN "w_search"
                    ELSE IF count[n] = 0 THEN "w_replace"
                    ELSE "w_search"]
    /\ UNCHANGED <<LEN, built, index, writing, count, data, idx, ret, arg, current_index,
                   nextVal, pubSeq, startLen, raced, steps, done,
                   acqSeq, installed, dropped, lastDrop, startDone>>

\* variant: take() instead of replace(data), the cell is left None
UpdateReplace_take(t) ==
    /\ pc[t] = "w_replace"
    /\ data' = [data EXCEPT ![next_index[t]] = None]
    /\ raced' = [r \in Procs |->
                    IF pc[r] \in {"r_add", "r_read"} /\ idx[r] = next_index[t]
                    THEN TRUE ELSE raced[r]]
    /\ pc' = [pc EXCEPT ![t] = "w_store"]
    /\ installed' = installed
    /\ dropped' = dropped \o data[next_index[t]]
    /\ lastDrop' = [lastDrop EXCEPT ![t] = data[next_index[t]]]
    /\ UNCHANGED <<LEN, built, index, writing, count, idx, ret, arg, current_index,
                   next_index, nextVal, pubSeq, startLen, steps, done,
                   acqSeq, startDone>>

\* drop((*self.items[next_index].data.get()).replace(data))
UpdateReplace(t) ==
    /\ pc[t] = "w_replace"
    /\ data' = [data EXCEPT ![next_index[t]] = Some(arg[t])]
    /\ raced' = [r \in Procs |->
                    IF pc[r] \in {"r_add", "r_read"} /\ idx[r] = next_index[t]
                    THEN TRUE ELSE raced[r]]
    /\ pc' = [pc EXCEPT ![t] = "w_store"]
    /\ installed' = installed \cup {arg[t]}
    /\ dropped' = dropped \o data[next_index[t]]
    /\ lastDrop' = [lastDrop EXCEPT ![t] = data[next_index[t]]]
    /\ UNCHANGED <<LEN, built, index, writing, count, idx, ret, arg, current_index,
                   next_index, nextVal, pubSeq, startLen, steps, done,
                   acqSeq, startDone>>

\* variant: the new slot is not published, index keeps its value
UpdateStoreIndex_noPublish(t) ==
    /\ pc[t] = "w_store"
    /\ pubSeq' = Append(pubSeq, arg[t])
    /\ pc' = [pc EXCEPT ![t] = "w_clear"]
    /\ UNCHANGED <<LEN, built, index, writing, count, data, idx, ret, arg, current_index,
                   next_index, nextVal, startLen, raced, steps, done,
                   acqSeq, installed, dropped, lastDrop, startDone>>

\* self.index.store(next_index, Release)
UpdateStoreIndex(t) ==
    /\ pc[t] = "w_store"
    /\ index' = next_index[t]
    /\ pubSeq' = Append(pubSeq, arg[t])
    /\ pc' = [pc EXCEPT ![t] = "w_clear"]
    /\ UNCHANGED <<LEN, built, writing, count, data, idx, ret, arg, current_index,
                   next_index, nextVal, startLen, raced, steps, done,
                   acqSeq, installed, dropped, lastDrop, startDone>>

\* self.writing.store(false, Release)
UpdateClear(t) ==
    /\ pc[t] = "w_clear"
    /\ writing' = FALSE
    /\ done' = done + 1
    /\ pc' = [pc EXCEPT ![t] = "w_done"]
    /\ UNCHANGED <<LEN, built, index, count, data, idx, ret, arg, current_index,
                   next_index, nextVal, pubSeq, startLen, raced, steps,
                   acqSeq, installed, dropped, lastDrop, startDone>>

update(t) ==
    \/ UpdateSwap(t)
    \/ UpdateLoadIndex(t)
    \/ UpdateSearch(t)
    \/ UpdateReplace(t)
    \/ UpdateStoreIndex(t)
    \/ UpdateClear(t)

Next ==
    \E t \in Procs :
        \/ GetDataCall(t)
        \/ get_data(t)
        \/ UpdateCall(t)
        \/ update(t)

Spec == Init /\ [][Next]_vars

\* The same program under fair scheduling: every thread that is inside a call
\* keeps taking steps; starting a call is never forced.
FairNext ==
    \E t \in 1..LiveProcs :
        \/ GetDataCall(t)
        \/ get_data(t)
        \/ (nextVal <= LiveUpdates /\ UpdateCall(t))
        \/ update(t)

FairSpec ==
    /\ Init
    /\ [][FairNext]_vars
    /\ \A t \in 1..LiveProcs : WF_vars(get_data(t) \/ update(t))

\* ---- get_data calls with the number of returned updates recorded ----
\* GetDataCall that also records how many updates had returned at call entry
GetDataCallTracked(t) ==
    /\ built
    /\ NotInCall(t)
    /\ pc' = [pc EXCEPT ![t] = "r_load"]
    /\ idx' = [idx EXCEPT ![t] = 0]
    /\ ret' = [ret EXCEPT ![t] = NoValue]
    /\ arg' = [arg EXCEPT ![t] = NoValue]
    /\ current_index' = [current_index EXCEPT ![t] = 0]
    /\ next_index' = [next_index EXCEPT ![t] = 0]
    /\ startLen' = [startLen EXCEPT ![t] = Len(pubSeq)]
    /\ raced' = [raced EXCEPT ![t] = FALSE]
    /\ steps' = [steps EXCEPT ![t] = 0]
    /\ lastDrop' = [lastDrop EXCEPT ![t] = None]
    /\ startDone' = [startDone EXCEPT ![t] = done + 1]
    /\ UNCHANGED <<LEN, built, index, writing, count, data, nextVal, pubSeq, done,
                   acqSeq, installed, dropped>>

TrackNext ==
    \E t \in Procs :
        \/ GetDataCallTracked(t)
        \/ get_data(t)
        \/ UpdateCall(t)
        \/ update(t)

\* the same program, every get_data call remembering the updates returned before it
TrackSpec == Init /\ [][TrackNext]_vars

\* ---- panics of the value type ----
\* T::clone panics inside get_data: the call unwinds from line 59, nothing
\* after it runs (no guard object exists), the thread is gone.
GetDataClonePanic(t) ==
    /\ pc[t] = "r_read"
    /\ pc' = [pc EXCEPT ![t] = "r_panicked"]
    /\ UNCHANGED <<LEN, built, index, writing, count, data, idx, ret, arg, current_index,
                   next_index, nextVal, pubSeq, startLen, raced, steps, done,
                   acqSeq, installed, dropped, lastDrop, startDone>>

\* T::drop of the previous occupant panics inside update: replace has already
\* written the cell, the call unwinds from line 90, lines 93 and 95 do not run.
UpdateDropPanic(t) ==
    /\ pc[t] = "w_replace"
    /\ data[next_index[t]] # None
    /\ data' = [data EXCEPT ![next_index[t]] = Some(arg[t])]
    /\ raced' = [r \in Procs |->
                    IF pc[r] \in {"r_add", "r_read"} /\ idx[r] = next_index[t]
                    THEN TRUE ELSE raced[r]]
    /\ installed' = installed \cup {arg[t]}
    /\ pc' = [pc EXCEPT ![t] = "w_panicked"]
    /\ UNCHANGED <<LEN, built, index, writing, count, idx, ret, arg, current_index,
                   next_index, nextVal, pubSeq, startLen, steps, done,
                   acqSeq, dropped, lastDrop, startDone>>

PanicNext ==
    \E t \in Procs :
        \/ GetDataCall(t)
        \/ get_data(t)
        \/ UpdateCall(t)
        \/ update(t)
        \/ GetDataClonePanic(t)
        \/ UpdateDropPanic(t)

\* the program with a value type whose clone and drop may panic
PanicSpec == Init /\ [][PanicNext]_vars

\* ---- derived notions used by the properties ----
InGetData(t) == pc[t] \in {"r_load", "r_add", "r_read", "r_sub"}
InsideSlot(t) == pc[t] \in {"r_read", "r_sub"}
HoldsFlag(t) == pc[t] \in {"w_load", "w_search", "w_replace", "w_store", "w_clear"}
InUpdate(t) == pc[t] = "w_swap" \/ HoldsFlag(t)
Holders == {t \in Procs : HoldsFlag(t)}
FullSlots == {s \in Slots : data[s] # None}
Min(a, b) == IF a <= b THEN a ELSE b
PublishedSince(n) == {pubSeq[i] : i \in n..Len(pubSeq)}
AcqAll == <<InitialValue>> \o acqSeq
Ticket(t) == CHOOSE j \in 1..Len(acqSeq) : acqSeq[j] = arg[t]
Replaced(t) == pc[t] \in {"w_store", "w_clear", "w_done"}
Others(t) == Procs \ {t}
Occurrences(q, v) == Cardinality({i \in 1..Len(q) : q[i] = v})

\* C1: a writer never replaces the cell of slot s while count[s] > 0.
C1_NoReplaceUnderReader ==
    [][\A w \in Procs : UpdateReplace(w) => count[next_index[w]] = 0]_vars

\* C2: a returned value was the published one when the call started, or was
\* published (index store) between the start and the return of the call.
C2_ReturnsPublished ==
    \A t \in Procs :
        pc[t] = "r_done" => ret[t] \in PublishedSince(startLen[t])

\* C3: with cell replacement atomic, the cell a reader dereferences is never
\* None at the moment of the read, and the value cloned out of a cell is the
\* initial value or the argument of some update call.
C3_ReadsInstalledValue ==
    \A t \in Procs :
        /\ pc[t] = "r_read" => data[idx[t]] # None
        /\ (pc[t] \in {"r_sub", "r_done"} /\ ret[t] # Torn) =>
                ret[t] \in {InitialValue} \cup 1..(nextVal - 1)

C3_Witness ==
    \E t \in Procs :
        pc[t] = "r_sub" /\ idx[t] # index /\ ret[t] \in 1..MaxUpdates

\* C4: at most one update is between its successful swap and its clearing
\* store, and the flag is set for as long as one is.
C4_OneWriter ==
    /\ Cardinality(Holders) <= 1
    /\ Holders # {} => writing

C4_Witness ==
    \E a, b \in Procs : a # b /\ HoldsFlag(a) /\ pc[b] = "w_swap" /\ done >= 1

\* C5: when update replaces the cell of next_index, next_index differs from
\* the shared index at that moment.
C5_TargetNotCurrent ==
    \A w \in Procs : pc[w] = "w_replace" => next_index[w] # index

C5_Witness ==
    \E w, r \in Procs :
        /\ pc[w] = "w_store" /\ done >= 1
        /\ InsideSlot(r) \/ pc[r] = "w_swap"

\* C6: the cell of the slot named by index always holds a value.
C6_IndexSlotFull ==
    built => (index \in Slots /\ data[index] # None)

C6_Witness ==
    \E w \in Procs : pc[w] = "w_store" /\ done >= 1 /\ data[index] # None

\* C7: construction is accepted exactly when LEN is a power of two and LEN >= 2.
C7_AcceptedIffPow2AtLeast2 ==
    built <=> (LEN >= 2 /\ \E k \in 0..MaxLen : 2^k = LEN)

\* C8: under fair scheduling, for LEN >= 2, an update that holds the writer
\* flag eventually completes, and while some update is pending the number of
\* completed updates eventually grows.
C8_WritersComplete ==
    /\ \A t \in 1..LiveProcs : (LEN >= 2 /\ HoldsFlag(t)) ~> (pc[t] = "w_done")
    /\ \A k \in 0..(LiveUpdates - 1) :
         (LEN >= 2 /\ done = k /\ \E t \in Procs : InUpdate(t)) ~> (done > k)

C8_Witness ==
    \E w, r \in Procs :
        /\ LEN >= 2 /\ pc[w] = "w_search"
        /\ next_index[w] # current_index[w] /\ count[next_index[w]] > 0
        /\ InsideSlot(r) /\ idx[r] = next_index[w]

\* C9: every step of a reader is enabled whatever the writer flag, the index
\* and the counters are, and the call returns after four steps of its own.
C9_ReaderWaitFree ==
    \A t \in Procs :
        /\ InGetData(t) => ENABLED get_data(t)
        /\ pc[t] = "r_done" => steps[t] = 4

C9_Witness ==
    \E t, w \in Procs :
        /\ pc[t] = "r_done" /\ steps[t] = 4
        /\ pc[w] = "w_clear" /\ writing
        /\ startLen[t] = Len(pubSeq) /\ ret[t] = arg[w]

\* C10: with k updates completed and none in progress exactly min(k+1, LEN)
\* slots are Full, and a Full cell never becomes Empty again.
C10_FullSlotCount ==
    /\ [](built /\ (\A t \in Procs : ~InUpdate(t)) =>
            Cardinality(FullSlots) = Min(done + 1, LEN))
    /\ [][\A s \in Slots : data[s] # None => data'[s] # None]_vars

C10_Witness ==
    /\ LEN = 4 /\ done >= LEN - 1 /\ \A t \in Procs : ~InUpdate(t)
    /\ \E r \in Procs : InsideSlot(r)
    /\ Cardinality(FullSlots) = 4

C12_NeverOlder ==
    \A t \in Procs :
        /\ (pc[t] = "r_done" /\ startDone[t] >= 2) =>
                ret[t] \in {AcqAll[i] : i \in startDone[t]..Len(AcqAll)}
        /\ (pc[t] = "r_done" /\ startDone[t] = Len(AcqAll)) =>
                ret[t] = AcqAll[startDone[t]]

\* C13: the values stored into the published slot are the update arguments in
\* flag order; once concurrent updates have completed the published value is
\* the last acquirer's and the previously published one is in another slot.
C13_PublishInFlagOrder ==
    /\ Len(pubSeq) <= Len(AcqAll) /\ Len(AcqAll) <= Len(pubSeq) + 1
    /\ \A i \in 1..Len(pubSeq) : pubSeq[i] = AcqAll[i]
    /\ built => data[index] = Some(pubSeq[Len(pubSeq)])
    /\ (\A t \in Procs : ~HoldsFlag(t)) => pubSeq = AcqAll
    /\ (Len(pubSeq) >= 2 /\ \A t \in Procs : pc[t] # "w_store") =>
            \E s \in Slots : s # index /\ data[s] = Some(pubSeq[Len(pubSeq) - 1])

C13_Witness ==
    \E a, b \in Procs :
        /\ pc[a] = "w_done" /\ pc[b] = "w_done" /\ arg[a] < arg[b]
        /\ acqSeq = <<arg[b], arg[a]>>
        /\ data[index] = Some(arg[a])
        /\ \E s \in Slots : s # index /\ data[s] = Some(arg[b])

\* C14: count[s] is the number of get_data calls between their fetch_add and
\* fetch_sub on s; with no call in progress all counts are zero and writing
\* is false; index is a slot; after LEN-1 completed updates all slots are Full.
C14_CountIsOccupancy ==
    built =>
        /\ \A s \in Slots :
                count[s] = Cardinality({t \in Procs : InsideSlot(t) /\ idx[t] = s})
        /\ index \in Slots
        /\ (\A t \in Procs : NotInCall(t)) =>
                /\ \A s \in Slots : count[s] = 0
                /\ ~writing
                /\ done >= LEN - 1 => FullSlots = Slots

C14_Witness ==
    /\ LEN = 4 /\ done >= LEN - 1
    /\ \A t \in Procs : NotInCall(t)
    /\ \E t \in Procs : pc[t] = "r_done" /\ ret[t] = pubSeq[Len(pubSeq)]

\* C15: for every accepted LEN an update running with no concurrent call
\* terminates.
C15_UncontendedUpdateTerminates ==
    \A t \in 1..LiveProcs :
        (built /\ InUpdate(t) /\ \A u \in Others(t) : NotInCall(u))
            ~> (pc[t] = "w_done" \/ \E u \in Others(t) : ~NotInCall(u))

\* C16: each search iteration advances next_index by one modulo LEN, never
\* targets current_index, leaves the loop exactly at the first probed slot
\* whose count is zero, and the index store publishes that slot; in a single
\* thread the published slots are 1, 2, ..., LEN-1, 0, 1, ...
C16_ProbeOrder ==
    /\ [][\A t \in Procs :
            /\ (pc[t] = "w_search" /\ (next_index'[t] # next_index[t] \/ pc'[t] = "w_replace")) =>
                  LET n == (next_index[t] + 1) % LEN IN
                    /\ next_index'[t] = n
                    /\ pc'[t] = "w_replace" => (n # current_index[t] /\ count[n] = 0)
                    /\ pc'[t] = "w_search" => (n = current_index[t] \/ count[n] > 0)
            /\ (pc[t] = "w_store" /\ pc'[t] = "w_clear") => index' = next_index[t]]_vars
    /\ [](\A t \in Procs :
            (built /\ \A u \in Others(t) : pc[u] = "idle") =>
                index = (Len(pubSeq) - 1) % LEN)

C16_Witness ==
    \E t \in Procs :
        /\ \A u \in Others(t) : pc[u] = "idle"
        /\ pc[t] = "w_done" /\ LEN >= 2 /\ Len(pubSeq) - 1 > LEN

\* C17: a get_data step changes only the counter of the slot it entered: one
\* increment and one decrement on the slot its index load named, nothing else.
C17_GetDataFrame ==
    [][\A t \in Procs :
        (InGetData(t) /\ pc'[t] # pc[t]) =>
            /\ index' = index /\ writing' = writing /\ data' = data
            /\ pc[t] = "r_load" => count' = count
            /\ pc[t] = "r_add" =>
                  (count' = [count EXCEPT ![idx[t]] = @ + 1] /\ idx'[t] = idx[t])
            /\ pc[t] = "r_read" => (count' = count /\ idx'[t] = idx[t])
            /\ pc[t] = "r_sub" =>
                  (count' = [count EXCEPT ![idx[t]] = @ - 1] /\ idx'[t] = idx[t])]_vars

C17_Witness ==
    \E t \in Procs :
        pc[t] = "r_done" /\ idx[t] # index /\ count[idx[t]] = 0 /\ startLen[t] < Len(pubSeq)

\* C18: when clone panics inside get_data the slot's counter is still
\* decremented.
C18_PanicReleasesCount ==
    [][\A t \in Procs :
        GetDataClonePanic(t) => count' = [count EXCEPT ![idx[t]] = @ - 1]]_vars

\* C19: when dropping the previous occupant panics inside update the writer
\* flag is still cleared.
C19_PanicClearsFlag ==
    (\A t \in Procs : ~HoldsFlag(t)) => ~writing

\* C20: the writer does not proceed into a slot a reader has entered.
C20_WriterStaysOut ==
    \A w, r \in Procs :
        pc[w] = "w_replace" => ~(InsideSlot(r) /\ idx[r] = next_index[w])

====
